---- MODULE Spec2Model ----
(***************************************************************************)
(* Model of PDFTextExtractor (src/pdf_to_txt.py): the token-bounded        *)
(* chunking of a text (split_text_into_chunks), the per-chunk LLM clean-up *)
(* (clean_text_chunk_with_llm), the overlap-aware merge                    *)
(* (merge_chunks_with_overlap) and the pipeline that chains them           *)
(* (extract_text_from_pdf).                                                *)
(*                                                                         *)
(* A Python str is modelled as a sequence of one-character strings, so     *)
(* that slicing, strip(), split() and re.split() are computed character by *)
(* character as Python computes them.                                      *)
(***************************************************************************)
EXTENDS Integers, Sequences, FiniteSets, TLC

\* ------------------------------------------------------------------ bounds

\* Longest free-form text handed to the splitter, counted in atoms (see
\* Atoms), and most paragraphs of a structured one (see Paragraphs).
MaxAtoms == 4

MaxParas == 3

\* The same for the text of a page of a PDF the pipeline runs on.
MaxPageAtoms == 3

MaxPageParas == 2

\* Largest max_tokens budget tried.
MaxTokens == 3

\* Longest chunk and longest chunk list handed directly to the merger.
MaxChunkLen == 2

MaxChunks == 3

\* Longest one-paragraph text of sentence marks handed to the splitter.
MaxSentenceChars == 3

\* Most entries of a folder handed to process_folder.
MaxFiles == 3

\* ---------------------------------------------------------------- alphabet

\* "R" stands for one occurrence of the word REFERENCES (any case), the
\* marker remove_references_section looks for.
RefMarker == "R"

Letters == {"a", "b", RefMarker}

Whitespace == {" ", "\n"}

\* The ideographic full stop, the one non-ASCII character of the sentence
\* regex, written by its code point.
IdeographicFullStop == "U+3002"

\* The character class of the sentence regex: '.', '!', '?', the ideographic
\* full stop, and '!' and '?' a second time.
Terminators == {".", "!", "?", IdeographicFullStop, "!", "?"}

\* The full-width exclamation mark and question mark, written by their code
\* points; the sentence regex does not list them.
FullwidthExclamation == "U+FF01"

FullwidthQuestion == "U+FF1F"

\* The pieces an input text is built from: the characters of the alphabet
\* and the blank line as one piece, so that short atom sequences already
\* hold several paragraphs.
Atoms == {<<"a">>, <<" ">>, <<".">>, <<"\n">>, <<"\n", "\n">>, <<RefMarker>>}

RECURSIVE TextsUpTo(_)
TextsUpTo(n) ==
    IF n = 0 THEN {<< >>}
    ELSE LET T == TextsUpTo(n - 1) IN T \cup {t \o a : t \in T, a \in Atoms}

\* The paragraphs a structured input text is made of: a word, a sentence, two
\* sentences, and a longer sentence with no mark.
Paragraphs ==
    {<<"a">>, <<"a", ".">>, <<"a", ".", " ", "a", ".">>,
     <<"a", " ", "a", " ", "a", " ", "a">>}

\* '\n\n'.join(list)
RECURSIVE JoinBlankLine(_)
JoinBlankLine(list) ==
    IF list = << >> THEN << >>
    ELSE IF Len(list) = 1 THEN list[1]
    ELSE list[1] \o <<"\n", "\n">> \o JoinBlankLine(Tail(list))

RECURSIVE StringsUpTo(_, _)
StringsUpTo(chars, n) ==
    IF n = 0 THEN {<< >>}
    ELSE LET T == StringsUpTo(chars, n - 1)
         IN T \cup {Append(t, c) : t \in T, c \in chars}

RECURSIVE ListsUpTo(_, _)
ListsUpTo(S, n) ==
    IF n = 0 THEN {<< >>}
    ELSE LET T == ListsUpTo(S, n - 1)
         IN T \cup {Append(t, x) : t \in T, x \in S}

\* Texts: every text of at most atoms atoms, and every text of at most paras
\* paragraphs separated by blank lines.
Texts(atoms, paras) ==
    TextsUpTo(atoms) \cup {JoinBlankLine(l) : l \in ListsUpTo(Paragraphs, paras)}

\* One-paragraph texts of words, spaces and sentence marks, ASCII and
\* full-width.
SentenceChars ==
    {"a", " ", ".", "!", "?", IdeographicFullStop, FullwidthExclamation,
     FullwidthQuestion}

SentenceTexts == StringsUpTo(SentenceChars, MaxSentenceChars)

\* The texts split_text_into_chunks is called on directly.
InputTexts == Texts(MaxAtoms, MaxParas)

\* The PDFs the pipeline runs on, each the list of the texts of its pages: no
\* page, one page of text, or two pages of one paragraph each.
Documents ==
    {<< >>} \cup {<<t>> : t \in Texts(MaxPageAtoms, MaxPageParas)}
        \cup {<<t, u>> : t, u \in Paragraphs}

\* ------------------------------------------------------------ str helpers

Min(S) == CHOOSE x \in S : \A y \in S : x <= y

Max(S) == CHOOSE x \in S : \A y \in S : x >= y

\* s[i:] and s[:i] with 1-based positions: Drop removes the first n
\* characters, Take keeps them.
Drop(s, n) == SubSeq(s, n + 1, Len(s))

Take(s, n) == SubSeq(s, 1, n)

\* s[-n:] for 1 <= n <= len(s).
Suffix(s, n) == SubSeq(s, Len(s) - n + 1, Len(s))

\* str.strip() with no argument.
Strip(s) ==
    LET F == {i \in 1..Len(s) : s[i] \notin Whitespace}
    IN IF F = {} THEN << >> ELSE SubSeq(s, Min(F), Max(F))

RECURSIVE Concat(_)
Concat(list) ==
    IF list = << >> THEN << >> ELSE Head(list) \o Concat(Tail(list))

\* ---------------------------------------------------------------- tokenizer

\* End (exclusive) of the run of characters of class C that starts at i.
RECURSIVE RunEnd(_, _, _)
RunEnd(s, i, C) ==
    IF i <= Len(s) /\ s[i] \in C THEN RunEnd(s, i + 1, C) ELSE i

\* End (exclusive) of the run of punctuation that starts at i.
RECURSIVE PunctRunEnd(_, _)
PunctRunEnd(s, i) ==
    IF i <= Len(s) /\ s[i] \notin Letters \cup Whitespace
    THEN PunctRunEnd(s, i + 1) ELSE i

IsLetterAt(s, i) == i <= Len(s) /\ s[i] \in Letters

IsPunctAt(s, i) == i <= Len(s) /\ s[i] \notin Letters \cup Whitespace

\* End (exclusive) of the token that starts at position i: the pre-token
\* pattern of the cl100k_base encoding on this alphabet, every pre-token
\* being one token.  In the pattern's order: a word with at most one leading
\* non-letter that is no line break; a run of punctuation with an optional
\* leading space and the line breaks after it; whitespace up to its last
\* line break; whitespace not followed by a non-space; whitespace.
TokenEnd(s, i) ==
    IF IsLetterAt(s, i) THEN RunEnd(s, i, Letters)
    ELSE IF s[i] # "\n" /\ IsLetterAt(s, i + 1) THEN RunEnd(s, i + 1, Letters)
    ELSE IF IsPunctAt(s, i) \/ (s[i] = " " /\ IsPunctAt(s, i + 1)) THEN
        LET k == IF s[i] = " " THEN i + 1 ELSE i
        IN RunEnd(s, PunctRunEnd(s, k), {"\n"})
    ELSE
        LET e == RunEnd(s, i, Whitespace)
            NL == {j \in i..(e - 1) : s[j] = "\n"}
        IN IF NL # {} THEN Max(NL) + 1
           ELSE IF e > Len(s) THEN e
           ELSE IF e - 1 > i THEN e - 1
           ELSE e

RECURSIVE CountFrom(_, _)
CountFrom(s, i) ==
    IF i > Len(s) THEN 0 ELSE 1 + CountFrom(s, TokenEnd(s, i))

\* len(self.encoding.encode(s))
Count(s) == CountFrom(s, 1)

\* ------------------------------------------------------- splitting helpers

\* Mutant of SplitParagraphs: text.split('\n'), a cut at every line break.
RECURSIVE SplitLines(_)
SplitLines(s) ==
    LET B == {k \in 1..Len(s) : s[k] = "\n"}
    IN IF B = {} THEN <<s>>
       ELSE <<Take(s, Min(B) - 1)>> \o SplitLines(Drop(s, Min(B)))

\* text.split('\n\n'): cut at every non-overlapping blank line, left to
\* right, empty pieces kept.
RECURSIVE SplitParagraphs(_)
SplitParagraphs(s) ==
    LET B == {k \in 1..(Len(s) - 1) : s[k] = "\n" /\ s[k + 1] = "\n"}
    IN IF B = {} THEN <<s>>
       ELSE <<Take(s, Min(B) - 1)>> \o SplitParagraphs(Drop(s, Min(B) + 1))

\* Mutant of IsBlank: only the empty string counts as blank.
IsEmpty(s) == s = << >>

\* not paragraph.strip()
IsBlank(s) == Strip(s) = << >>

\* re.split on the sentence regex, whose group keeps the marks: text, mark,
\* text, mark, ..., text.
RECURSIVE ReSplit(_)
ReSplit(s) ==
    LET P == {k \in 1..Len(s) : s[k] \in Terminators}
    IN IF P = {} THEN <<s>>
       ELSE <<Take(s, Min(P) - 1), <<s[Min(P)]>>>> \o ReSplit(Drop(s, Min(P)))

\* Mutant of ZipJoin: the marks are not put back, parts[0::2] alone is kept.
ZipJoinNoMarks(parts) ==
    [k \in 1..((Len(parts) + 1) \div 2) |-> parts[2 * k - 1]]

\* [''.join(i) for i in zip(parts[0::2], parts[1::2] + [''])]
ZipJoin(parts) ==
    [k \in 1..((Len(parts) + 1) \div 2) |->
        parts[2 * k - 1] \o (IF 2 * k <= Len(parts) THEN parts[2 * k] ELSE << >>)]

SentencesOf(paragraph) == ZipJoin(ReSplit(paragraph))

\* remove_references_section: everything from the first marker on is cut.
RemoveReferences(s) ==
    LET M == {k \in 1..Len(s) : s[k] = RefMarker}
    IN IF M = {} THEN s ELSE Take(s, Min(M) - 1)

\* ------------------------------------------------------------------ merging

DefaultOverlapChars == 100

\* The overlap_chars values the merger is called with directly.
OverlapChoices == {1, 2, DefaultOverlapChars}

MinOf3(a, b, c) == Min({a, b, c})

\* Mutant of FindOverlap: the lengths are tried upwards from 1, so the
\* shortest overlap is found.
RECURSIVE FindOverlapUp(_, _, _, _)
FindOverlapUp(res, chunk, check_len, top) ==
    IF check_len > top THEN 0
    ELSE IF Suffix(res, check_len) = Take(chunk, check_len) THEN check_len
    ELSE FindOverlapUp(res, chunk, check_len + 1, top)

FindOverlapShortest(res, chunk, check_len) == FindOverlapUp(res, chunk, 1, check_len)

\* for check_len in range(max_check_len, 0, -1): the first check_len, going
\* down, at which result[-check_len:] == current_chunk[:check_len]; 0 when
\* the loop ends without a match.
RECURSIVE FindOverlap(_, _, _)
FindOverlap(res, chunk, check_len) ==
    IF check_len <= 0 THEN 0
    ELSE IF Suffix(res, check_len) = Take(chunk, check_len) THEN check_len
    ELSE FindOverlap(res, chunk, check_len - 1)

\* Mutants of MergeOne: a line break is put before a chunk with no overlap;
\* the overlap is cut from the accumulator as well as from the chunk.
MergeOneNewline(res, chunk, overlap) ==
    LET found == FindOverlap(res, chunk, MinOf3(overlap, Len(res), Len(chunk)))
    IN IF found > 0 THEN res \o Drop(chunk, found) ELSE res \o <<"\n">> \o chunk

MergeOneCutBoth(res, chunk, overlap) ==
    LET found == FindOverlap(res, chunk, MinOf3(overlap, Len(res), Len(chunk)))
    IN IF found > 0 THEN Take(res, Len(res) - found) \o Drop(chunk, found)
       ELSE res \o chunk

\* One iteration of the merge loop: the new value of result.
MergeOne(res, chunk, overlap) ==
    LET max_check_len == MinOf3(overlap, Len(res), Len(chunk))
        found == FindOverlap(res, chunk, max_check_len)
    IN IF found > 0 THEN res \o Drop(chunk, found) ELSE res \o chunk

RECURSIVE MergeFrom(_, _, _, _)
MergeFrom(res, list, i, overlap) ==
    IF i > Len(list) THEN res
    ELSE MergeFrom(MergeOne(res, list[i], overlap), list, i + 1, overlap)

\* merge_chunks_with_overlap as a function of its arguments.
MergeAll(list, overlap) ==
    IF list = << >> THEN << >>
    ELSE IF Len(list) = 1 THEN list[1]
    ELSE MergeFrom(list[1], list, 2, overlap)

\* The two merges the documentation works out.
FoxChunks ==
    << <<"T", "h", "e", " ", "q", "u", "i", "c", "k", " ", "b", "r", "o", "w",
         "n", " ", "f", "o", "x">>,
       <<" ", "b", "r", "o", "w", "n", " ", "f", "o", "x", " ", "j", "u", "m",
         "p", "s">> >>

FoxMerged ==
    <<"T", "h", "e", " ", "q", "u", "i", "c", "k", " ", "b", "r", "o", "w", "n",
      " ", "f", "o", "x", " ", "j", "u", "m", "p", "s">>

AbcXyzChunks == << <<"a", "b", "c">>, <<"x", "y", "z">> >>

AbcXyzMerged == <<"a", "b", "c", "x", "y", "z">>

\* ---------------------------------------------------------------- LLM call

\* What one call of the chat-completions service can do: raise (ok = FALSE),
\* or answer with a text: the chunk echoed, or a rewritten text.
LlmOutcomes(chunk) ==
    {[ok |-> FALSE, reply |-> << >>]}
        \cup {[ok |-> TRUE, reply |-> r] : r \in {chunk, <<" ", "b", " ">>}}

\* Mutant of CleanResult: nothing is returned when the call raised.
CleanResultOrNothing(chunk, outcome) ==
    IF outcome.ok THEN Strip(outcome.reply) ELSE << >>

\* clean_text_chunk_with_llm: the stripped answer, or the chunk itself when
\* the call raised.
CleanResult(chunk, outcome) ==
    IF outcome.ok THEN Strip(outcome.reply) ELSE chunk

\* -------------------------------------------------------------------- state

VARIABLES
    pc,             \* where the run stands
    pages,          \* the text of each page of the PDF
    raw_text,       \* what pdf_to_text returned
    max_tokens,     \* the token budget
    text,           \* processed_text, the argument of split_text_into_chunks
    paragraphs,     \* text.split('\n\n')
    pidx,           \* position of the paragraph loop
    sentences,      \* sentences of the oversized paragraph at hand
    sidx,           \* position of the sentence loop
    current_chunk,  \* the packing buffer
    chunks,         \* chunks emitted so far
    cleaned_chunks, \* cleaned chunks collected so far
    llm_log,        \* the calls of the LLM so far: chunk index and outcome
    mchunks,        \* the chunks argument of merge_chunks_with_overlap
    overlap_chars,  \* its overlap_chars argument
    result,         \* the merge accumulator
    midx,           \* position of the merge loop
    final_text,     \* what extract_text_from_pdf returns
    listing,        \* os.listdir(input_folder)
    pdf_files,      \* the entries of the folder that are PDF files
    fidx,           \* position of the loop over pdf_files
    successful_count,
    failed_count,
    file_log        \* the files handled so far, each with what its run did

vars == <<pc, pages, raw_text, max_tokens, text, paragraphs, pidx, sentences, sidx,
          current_chunk, chunks, cleaned_chunks, llm_log, mchunks,
          overlap_chars, result, midx, final_text, listing, pdf_files, fidx,
          successful_count, failed_count, file_log>>

folderVars == <<listing, pdf_files, fidx, successful_count, failed_count, file_log>>

\* process_folder has not been called.
NoFolder ==
    /\ listing = << >>
    /\ pdf_files = << >>
    /\ fidx = 1
    /\ successful_count = 0
    /\ failed_count = 0
    /\ file_log = << >>

splitVars == <<paragraphs, pidx, sentences, sidx, current_chunk, chunks>>

mergeVars == <<mchunks, overlap_chars, result, midx>>

inputVars == <<pages, raw_text, max_tokens>>

\* extract_text_from_pdf is called on a PDF.
Init ==
    /\ pc = "pdf_to_text"
    /\ pages \in Documents
    /\ raw_text = << >>
    /\ max_tokens \in 1..MaxTokens
    /\ text = << >>
    /\ paragraphs = << >>
    /\ pidx = 1
    /\ sentences = << >>
    /\ sidx = 1
    /\ current_chunk = << >>
    /\ chunks = << >>
    /\ cleaned_chunks = << >>
    /\ llm_log = << >>
    /\ mchunks = << >>
    /\ overlap_chars = DefaultOverlapChars
    /\ result = << >>
    /\ midx = 1
    /\ final_text = << >>
    /\ NoFolder

\* ------------------------------------------------- extract_text_from_pdf

\* text += page.extract_text() + "\n", page after page.
RECURSIVE PagesText(_)
PagesText(list) ==
    IF list = << >> THEN << >>
    ELSE Head(list) \o <<"\n">> \o PagesText(Tail(list))

\* pdf_to_text: the text of the pages, a line break after each, or "" when
\* reading the file raises.
PdfToText ==
    /\ pc = "pdf_to_text"
    /\ \/ raw_text' = PagesText(pages)
       \/ raw_text' = << >>
    /\ pc' = "extract"
    /\ UNCHANGED folderVars
    /\ UNCHANGED <<pages, max_tokens, text, splitVars, cleaned_chunks, llm_log,
                   mergeVars, final_text>>

\* Steps 1 to 3: an empty raw text ends the run; otherwise the references
\* are cut and split_text_into_chunks is called on the rest.
ExtractBegin ==
    /\ pc = "extract"
    /\ IF raw_text = << >>
       THEN /\ pc' = "done"
            /\ final_text' = << >>
            /\ UNCHANGED text
       ELSE /\ pc' = "split"
            /\ text' = RemoveReferences(raw_text)
            /\ UNCHANGED final_text
    /\ UNCHANGED folderVars
    /\ UNCHANGED <<inputVars, splitVars, cleaned_chunks, llm_log, mergeVars>>

\* ------------------------------------------------ split_text_into_chunks

\* chunks.append(current_chunk) when the buffer is not empty.
Flushed(list, buffer) == IF buffer # << >> THEN Append(list, buffer) ELSE list

\* Mutant of JoinParagraph: the buffer is left out of test_chunk.
JoinParagraphLost(buffer, paragraph) == paragraph

\* test_chunk for a paragraph and for a sentence.
JoinParagraph(buffer, paragraph) ==
    IF buffer # << >> THEN buffer \o <<"\n", "\n">> \o paragraph ELSE paragraph

\* Mutant of JoinSentence: a space is put between the buffer and the sentence.
JoinSentenceSpaced(buffer, sentence) ==
    IF buffer # << >> THEN buffer \o <<" ">> \o sentence ELSE sentence

JoinSentence(buffer, sentence) ==
    IF buffer # << >> THEN buffer \o sentence ELSE sentence

\* Mutants of Fits: a budget that is one too large, and a strict comparison.
FitsOneMore(test_chunk, budget) == Count(test_chunk) <= budget + 1

FitsStrict(test_chunk, budget) == Count(test_chunk) < budget

\* if token_count <= max_tokens
Fits(test_chunk, budget) == Count(test_chunk) <= budget

\* if paragraph_tokens > max_tokens
Oversized(paragraph, budget) == Count(paragraph) > budget

\* Entry: the text is cut into paragraphs, no chunk yet, an empty buffer.
SplitBegin ==
    /\ pc = "split"
    /\ paragraphs' = SplitParagraphs(text)
    /\ pidx' = 1
    /\ chunks' = << >>
    /\ current_chunk' = << >>
    /\ pc' = "split_loop"
    /\ UNCHANGED folderVars
    /\ UNCHANGED <<inputVars, text, sentences, sidx, cleaned_chunks, llm_log,
                   mergeVars, final_text>>

\* A paragraph that is empty after strip() is skipped.
SkipBlankParagraph ==
    /\ pc = "split_loop"
    /\ pidx <= Len(paragraphs)
    /\ IsBlank(paragraphs[pidx])
    /\ pidx' = pidx + 1
    /\ UNCHANGED folderVars
    /\ UNCHANGED <<pc, inputVars, text, paragraphs, sentences, sidx,
                   current_chunk, chunks, cleaned_chunks, llm_log, mergeVars,
                   final_text>>

\* A paragraph over the budget: the buffer is emitted and the paragraph is
\* cut into sentences.
SplitOversizedParagraph ==
    /\ pc = "split_loop"
    /\ pidx <= Len(paragraphs)
    /\ ~IsBlank(paragraphs[pidx])
    /\ Oversized(paragraphs[pidx], max_tokens)
    /\ chunks' = Flushed(chunks, current_chunk)
    /\ current_chunk' = << >>
    /\ sentences' = SentencesOf(paragraphs[pidx])
    /\ sidx' = 1
    /\ pc' = "sentence_loop"
    /\ UNCHANGED folderVars
    /\ UNCHANGED <<inputVars, text, paragraphs, pidx, cleaned_chunks, llm_log,
                   mergeVars, final_text>>

\* One sentence of the oversized paragraph: skipped when blank, appended to
\* the buffer when the result fits, else the buffer is emitted and the
\* sentence starts the next one.
PackSentence ==
    /\ pc = "sentence_loop"
    /\ sidx <= Len(sentences)
    /\ LET sentence == sentences[sidx]
           test_chunk == JoinSentence(current_chunk, sentence)
       IN IF IsBlank(sentence)
          THEN UNCHANGED <<current_chunk, chunks>>
          ELSE IF Fits(test_chunk, max_tokens)
               THEN /\ current_chunk' = test_chunk
                    /\ UNCHANGED chunks
               ELSE /\ chunks' = Flushed(chunks, current_chunk)
                    /\ current_chunk' = sentence
    /\ sidx' = sidx + 1
    /\ UNCHANGED folderVars
    /\ UNCHANGED <<pc, inputVars, text, paragraphs, pidx, sentences,
                   cleaned_chunks, llm_log, mergeVars, final_text>>

\* The sentence loop is over: continue with the next paragraph.
EndSentences ==
    /\ pc = "sentence_loop"
    /\ sidx > Len(sentences)
    /\ pc' = "split_loop"
    /\ pidx' = pidx + 1
    /\ UNCHANGED folderVars
    /\ UNCHANGED <<inputVars, text, paragraphs, sentences, sidx, current_chunk,
                   chunks, cleaned_chunks, llm_log, mergeVars, final_text>>

\* A paragraph within the budget: appended to the buffer behind a blank
\* line when the result fits, else the buffer is emitted and the paragraph
\* starts the next one.
PackParagraph ==
    /\ pc = "split_loop"
    /\ pidx <= Len(paragraphs)
    /\ ~IsBlank(paragraphs[pidx])
    /\ ~Oversized(paragraphs[pidx], max_tokens)
    /\ LET paragraph == paragraphs[pidx]
           test_chunk == JoinParagraph(current_chunk, paragraph)
       IN IF Fits(test_chunk, max_tokens)
          THEN /\ current_chunk' = test_chunk
               /\ UNCHANGED chunks
          ELSE /\ chunks' = Flushed(chunks, current_chunk)
               /\ current_chunk' = paragraph
    /\ pidx' = pidx + 1
    /\ UNCHANGED folderVars
    /\ UNCHANGED <<pc, inputVars, text, paragraphs, sentences, sidx,
                   cleaned_chunks, llm_log, mergeVars, final_text>>

\* The paragraph loop is over: the last buffer is emitted and the chunks are
\* returned; the pipeline goes on with its clean-up loop.
FinishSplit ==
    /\ pc = "split_loop"
    /\ pidx > Len(paragraphs)
    /\ chunks' = Flushed(chunks, current_chunk)
    /\ cleaned_chunks' = << >>
    /\ pc' = "clean_loop"
    /\ UNCHANGED folderVars
    /\ UNCHANGED <<inputVars, text, paragraphs, pidx, sentences, sidx,
                   current_chunk, llm_log, mergeVars, final_text>>

\* ----------------------------------------------------------- step 4 and 5

\* One iteration of the clean-up loop: the LLM is called on the next chunk
\* and the cleaned chunk is appended.
CleanChunk ==
    /\ pc = "clean_loop"
    /\ Len(cleaned_chunks) < Len(chunks)
    /\ LET i == Len(cleaned_chunks) + 1
       IN \E outcome \in LlmOutcomes(chunks[i]) :
            /\ cleaned_chunks' = Append(cleaned_chunks, CleanResult(chunks[i], outcome))
            /\ llm_log' = Append(llm_log, [index |-> i, outcome |-> outcome])
    /\ UNCHANGED folderVars
    /\ UNCHANGED <<pc, inputVars, text, splitVars, mergeVars, final_text>>

\* Mutant of CallMerge: the merge is called inside the clean-up loop, on the
\* chunks cleaned so far.
CallMergeEarly ==
    /\ pc = "clean_loop"
    /\ Len(cleaned_chunks) <= Len(chunks)
    /\ mchunks' = cleaned_chunks
    /\ overlap_chars' = DefaultOverlapChars
    /\ pc' = "merge"
    /\ UNCHANGED folderVars
    /\ UNCHANGED <<inputVars, text, splitVars, cleaned_chunks, llm_log, result,
                   midx, final_text>>

\* The clean-up loop is over: merge_chunks_with_overlap is called on the
\* cleaned chunks with its default overlap_chars.
CallMerge ==
    /\ pc = "clean_loop"
    /\ Len(cleaned_chunks) = Len(chunks)
    /\ mchunks' = cleaned_chunks
    /\ overlap_chars' = DefaultOverlapChars
    /\ pc' = "merge"
    /\ UNCHANGED folderVars
    /\ UNCHANGED <<inputVars, text, splitVars, cleaned_chunks, llm_log, result,
                   midx, final_text>>

\* ---------------------------------------------- merge_chunks_with_overlap

\* No chunk: "" is returned; one chunk: it is returned; else the accumulator
\* starts as the first chunk.
MergeBegin ==
    /\ pc = "merge"
    /\ IF Len(mchunks) = 0
       THEN result' = << >> /\ pc' = "merged" /\ UNCHANGED midx
       ELSE IF Len(mchunks) = 1
            THEN result' = mchunks[1] /\ pc' = "merged" /\ UNCHANGED midx
            ELSE result' = mchunks[1] /\ pc' = "merge_loop" /\ midx' = 2
    /\ UNCHANGED folderVars
    /\ UNCHANGED <<inputVars, text, splitVars, cleaned_chunks, llm_log, mchunks,
                   overlap_chars, final_text>>

\* One iteration of the merge loop.
MergeStep ==
    /\ pc = "merge_loop"
    /\ midx <= Len(mchunks)
    /\ result' = MergeOne(result, mchunks[midx], overlap_chars)
    /\ midx' = midx + 1
    /\ UNCHANGED folderVars
    /\ UNCHANGED <<pc, inputVars, text, splitVars, cleaned_chunks, llm_log,
                   mchunks, overlap_chars, final_text>>

\* The merge loop is over: result is returned.
MergeReturn ==
    /\ pc = "merge_loop"
    /\ midx > Len(mchunks)
    /\ pc' = "merged"
    /\ UNCHANGED folderVars
    /\ UNCHANGED <<inputVars, text, splitVars, cleaned_chunks, llm_log,
                   mergeVars, final_text>>

\* extract_text_from_pdf returns the merged text.
Finish ==
    /\ pc = "merged"
    /\ final_text' = result
    /\ pc' = "done"
    /\ UNCHANGED folderVars
    /\ UNCHANGED <<inputVars, text, splitVars, cleaned_chunks, llm_log,
                   mergeVars>>

\* ----------------------------------------------------------- specifications

Next ==
    \/ PdfToText
    \/ ExtractBegin
    \/ SplitBegin
    \/ SkipBlankParagraph
    \/ SplitOversizedParagraph
    \/ PackSentence
    \/ EndSentences
    \/ PackParagraph
    \/ FinishSplit
    \/ CleanChunk
    \/ CallMerge
    \/ MergeBegin
    \/ MergeStep
    \/ MergeReturn
    \/ Finish

\* One run of the pipeline on one PDF.
Spec == Init /\ [][Next]_vars

\* split_text_into_chunks called on its own, with any text and any budget.
InitSplit ==
    /\ pc = "split"
    /\ text \in InputTexts
    /\ max_tokens \in 1..MaxTokens
    /\ pages = << >>
    /\ raw_text = << >>
    /\ paragraphs = << >>
    /\ pidx = 1
    /\ sentences = << >>
    /\ sidx = 1
    /\ current_chunk = << >>
    /\ chunks = << >>
    /\ cleaned_chunks = << >>
    /\ llm_log = << >>
    /\ mchunks = << >>
    /\ overlap_chars = DefaultOverlapChars
    /\ result = << >>
    /\ midx = 1
    /\ final_text = << >>
    /\ NoFolder

NextSplit ==
    \/ SplitBegin
    \/ SkipBlankParagraph
    \/ SplitOversizedParagraph
    \/ PackSentence
    \/ EndSentences
    \/ PackParagraph
    \/ FinishSplit

SpecSplit == InitSplit /\ [][NextSplit]_vars

\* split_text_into_chunks called on a text of one paragraph with sentence
\* marks of every kind.
InitSentences ==
    /\ pc = "split"
    /\ text \in SentenceTexts
    /\ max_tokens \in 1..MaxTokens
    /\ pages = << >>
    /\ raw_text = << >>
    /\ paragraphs = << >>
    /\ pidx = 1
    /\ sentences = << >>
    /\ sidx = 1
    /\ current_chunk = << >>
    /\ chunks = << >>
    /\ cleaned_chunks = << >>
    /\ llm_log = << >>
    /\ mchunks = << >>
    /\ overlap_chars = DefaultOverlapChars
    /\ result = << >>
    /\ midx = 1
    /\ final_text = << >>
    /\ NoFolder

SpecSentences == InitSentences /\ [][NextSplit]_vars

\* merge_chunks_with_overlap called on its own, with any list of chunks and
\* any overlap_chars.
InitMerge ==
    /\ pc = "merge"
    /\ \/ /\ mchunks \in ListsUpTo(StringsUpTo({"a", "b"}, MaxChunkLen), MaxChunks)
          /\ overlap_chars \in OverlapChoices
       \/ /\ mchunks = FoxChunks
          /\ overlap_chars = 20
       \/ /\ mchunks = AbcXyzChunks
          /\ overlap_chars = DefaultOverlapChars
    /\ pages = << >>
    /\ raw_text = << >>
    /\ max_tokens = 1
    /\ text = << >>
    /\ paragraphs = << >>
    /\ pidx = 1
    /\ sentences = << >>
    /\ sidx = 1
    /\ current_chunk = << >>
    /\ chunks = << >>
    /\ cleaned_chunks = << >>
    /\ llm_log = << >>
    /\ result = << >>
    /\ midx = 1
    /\ final_text = << >>
    /\ NoFolder

NextMerge ==
    \/ MergeBegin
    \/ MergeStep
    \/ MergeReturn

SpecMerge == InitMerge /\ [][NextMerge]_vars

\* ------------------------------------------------------------ process_folder

\* A file name is its stem and its extension.  str.lower() on an extension.
Lower(ext) == IF ext = ".PDF" THEN ".pdf" ELSE ext

\* f.lower().endswith('.pdf')
IsPdfFile(f) == Lower(f.ext) = ".pdf"

\* The entries a folder can hold, and the folders: what os.listdir returns,
\* distinct names in any order.
FolderEntries ==
    {[stem |-> "x", ext |-> ".pdf"], [stem |-> "y", ext |-> ".PDF"],
     [stem |-> "z", ext |-> ".txt"], [stem |-> "w", ext |-> ".pdf"]}

Listings ==
    {l \in ListsUpTo(FolderEntries, MaxFiles) :
        \A i, j \in 1..Len(l) : i # j => l[i] # l[j]}

\* What the run of extract_text_from_pdf on one file can do: raise, or return
\* a text, empty or not.
FileOutcomes ==
    {[raised |-> TRUE, text |-> << >>]}
        \cup {[raised |-> FALSE, text |-> t] : t \in {<< >>, <<"a">>}}

\* Mutant of Tally: a run that raised is counted nowhere.
TallyDropsRaised(successful, failed, outcome) ==
    IF outcome.raised THEN <<successful, failed>>
    ELSE IF outcome.text # << >> THEN <<successful + 1, failed>>
    ELSE <<successful, failed + 1>>

\* The body of the loop: successful_count and failed_count after a file, from
\* what its run did.
Tally(successful, failed, outcome) ==
    IF outcome.raised THEN <<successful, failed + 1>>
    ELSE IF outcome.text # << >> THEN <<successful + 1, failed>>
    ELSE <<successful, failed + 1>>

pipelineVars ==
    <<pages, raw_text, max_tokens, text, paragraphs, pidx, sentences, sidx,
      current_chunk, chunks, cleaned_chunks, llm_log, mchunks, overlap_chars,
      result, midx, final_text>>

\* Entry: the PDF files of the folder are listed; with none the method
\* returns, else the counters start at 0.
FolderBegin ==
    /\ pc = "process_folder"
    /\ pdf_files' = SelectSeq(listing, IsPdfFile)
    /\ IF pdf_files' = << >>
       THEN pc' = "folder_done" /\ UNCHANGED <<successful_count, failed_count>>
       ELSE pc' = "folder_loop" /\ successful_count' = 0 /\ failed_count' = 0
    /\ fidx' = 1
    /\ UNCHANGED <<listing, file_log, pipelineVars>>

\* One iteration of the loop: the pipeline is run on the next file inside
\* try/except and one of the two counters goes up.
ProcessFile ==
    /\ pc = "folder_loop"
    /\ fidx <= Len(pdf_files)
    /\ \E outcome \in FileOutcomes :
        /\ successful_count' = Tally(successful_count, failed_count, outcome)[1]
        /\ failed_count' = Tally(successful_count, failed_count, outcome)[2]
        /\ file_log' = Append(file_log, [file |-> pdf_files[fidx], outcome |-> outcome])
    /\ fidx' = fidx + 1
    /\ UNCHANGED <<pc, listing, pdf_files, pipelineVars>>

\* The loop is over: the totals are printed.
FolderEnd ==
    /\ pc = "folder_loop"
    /\ fidx > Len(pdf_files)
    /\ pc' = "folder_done"
    /\ UNCHANGED <<folderVars, pipelineVars>>

\* process_folder called on a folder.
InitFolder ==
    /\ pc = "process_folder"
    /\ listing \in Listings
    /\ pdf_files = << >>
    /\ fidx = 1
    /\ successful_count = 0
    /\ failed_count = 0
    /\ file_log = << >>
    /\ pages = << >>
    /\ raw_text = << >>
    /\ max_tokens = 1
    /\ text = << >>
    /\ paragraphs = << >>
    /\ pidx = 1
    /\ sentences = << >>
    /\ sidx = 1
    /\ current_chunk = << >>
    /\ chunks = << >>
    /\ cleaned_chunks = << >>
    /\ llm_log = << >>
    /\ mchunks = << >>
    /\ overlap_chars = DefaultOverlapChars
    /\ result = << >>
    /\ midx = 1
    /\ final_text = << >>

NextFolder ==
    \/ FolderBegin
    \/ ProcessFile
    \/ FolderEnd

SpecFolder == InitFolder /\ [][NextFolder]_vars

\* ------------------------------------------------ claims about the splitter

\* split_text_into_chunks is running: chunks holds the chunks emitted so far.
Splitting == pc \in {"split_loop", "sentence_loop"}

\* split_text_into_chunks has just returned: chunks is its result.
SplitDone == pc = "clean_loop" /\ cleaned_chunks = << >>

\* The paragraphs of the text that are not empty after trimming, in order.
NonBlank(list) == SelectSeq(list, LAMBDA x : ~IsBlank(x))

\* The sentences of a paragraph the sentence loop looks at.
SentenceSet(paragraph) ==
    {SentencesOf(paragraph)[k] : k \in 1..Len(SentencesOf(paragraph))}

\* A single sentence of the text whose own count exceeds the budget.
OversizedSentences ==
    {s \in UNION {SentenceSet(paragraphs[k]) : k \in 1..Len(paragraphs)} :
        ~IsBlank(s) /\ Count(s) > max_tokens}

\* C1: every chunk emitted has a token count of at most max_tokens, unless
\* the chunk is one single sentence whose own count exceeds max_tokens.
C1_Budget ==
    (Splitting \/ SplitDone) =>
        \A i \in 1..Len(chunks) :
            Count(chunks[i]) <= max_tokens \/ chunks[i] \in OversizedSentences

\* C1 witness: the split is over and returned both a chunk that is an
\* oversized sentence and a chunk of several segments within the budget.
C1_Witness ==
    /\ SplitDone
    /\ \E i \in 1..Len(chunks) : chunks[i] \in OversizedSentences
    /\ \E j \in 1..Len(chunks) :
        Count(chunks[j]) <= max_tokens /\ Len(SplitParagraphs(chunks[j])) > 1

\* A chunk with the blank lines that joined its paragraphs removed.
WithoutSeparators(chunk) == Concat(SplitParagraphs(chunk))

RECURSIVE ConcatMap(_, _)
ConcatMap(F(_), list) ==
    IF list = << >> THEN << >> ELSE F(Head(list)) \o ConcatMap(F, Tail(list))

\* C2 as stated: the chunks concatenated in order, separators removed, equal
\* the non-blank paragraphs concatenated in source order.
C2_NothingDropped ==
    SplitDone =>
        ConcatMap(WithoutSeparators, chunks) = Concat(NonBlank(paragraphs))

\* What the splitter keeps of a paragraph: all of it, or, when it is cut into
\* sentences, the sentences that are not blank.
Kept(paragraph) ==
    IF Count(paragraph) > max_tokens
    THEN Concat(NonBlank(SentencesOf(paragraph)))
    ELSE paragraph

\* C2 amended: the chunks concatenated in order, separators removed, equal
\* the non-blank paragraphs concatenated in source order, the whitespace-only
\* sentence pieces of the paragraphs cut into sentences left out.
C2_NothingButBlankDropped ==
    SplitDone =>
        ConcatMap(WithoutSeparators, chunks) = ConcatMap(Kept, NonBlank(paragraphs))

\* C2 witness: the split is over, a paragraph was cut into sentences that
\* went to different chunks, and another chunk holds two paragraphs.
C2_Witness ==
    /\ SplitDone
    /\ Len(chunks) >= 3
    /\ \E k \in 1..Len(paragraphs) :
        /\ Count(paragraphs[k]) > max_tokens
        /\ Len(NonBlank(SentencesOf(paragraphs[k]))) >= 2
    /\ \E j \in 1..Len(chunks) : Len(SplitParagraphs(chunks[j])) > 1

\* The paragraph is one sentence: it is not blank and only whitespace follows
\* its sentence mark, if it has one.
IsOneSentence(paragraph) ==
    /\ ~IsBlank(paragraph)
    /\ \A k \in 1..Len(paragraph) :
        paragraph[k] \in Terminators =>
            \A j \in (k + 1)..Len(paragraph) : paragraph[j] \in Whitespace

\* That sentence: the paragraph up to its mark, or all of it.
TheSentence(paragraph) ==
    LET M == {k \in 1..Len(paragraph) : paragraph[k] \in Terminators}
    IN IF M = {} THEN paragraph ELSE Take(paragraph, Min(M))

\* Paragraph k is one sentence whose count exceeds the budget.
OneOversizedSentence(k) ==
    /\ IsOneSentence(paragraphs[k])
    /\ Count(paragraphs[k]) > max_tokens
    /\ Count(TheSentence(paragraphs[k])) > max_tokens

FirstParagraph(chunk) == SplitParagraphs(chunk)[1]

\* The chunks of a split with no paragraph over the budget: each is within
\* the budget, and each, joined by a blank line to the first paragraph of the
\* chunk after it, exceeds the budget.
GreedyChunks ==
    (SplitDone /\ \A k \in 1..Len(paragraphs) : Count(paragraphs[k]) <= max_tokens) =>
        /\ \A i \in 1..(Len(chunks) - 1) :
            Count(chunks[i] \o <<"\n", "\n">> \o FirstParagraph(chunks[i + 1])) > max_tokens
        /\ \A i \in 1..Len(chunks) : Count(chunks[i]) <= max_tokens

\* The step taken on a paragraph within the budget: it goes to the buffer,
\* behind a blank line when the buffer is not empty, exactly when the buffer so
\* extended is within the budget; otherwise the buffer is emitted and the
\* paragraph alone is the new buffer.
GreedyStep ==
    (/\ pc = "split_loop"
     /\ pidx <= Len(paragraphs)
     /\ ~IsBlank(paragraphs[pidx])
     /\ Count(paragraphs[pidx]) <= max_tokens) =>
        LET paragraph == paragraphs[pidx]
            joined == IF current_chunk = << >> THEN paragraph
                      ELSE current_chunk \o <<"\n", "\n">> \o paragraph
        IN IF Count(joined) <= max_tokens
           THEN current_chunk' = joined /\ chunks' = chunks
           ELSE /\ current_chunk # << >>
                /\ chunks' = Append(chunks, current_chunk)
                /\ current_chunk' = paragraph

\* C10: packing is greedy first-fit: every step on a paragraph within the
\* budget is a GreedyStep, and so, when no paragraph exceeds max_tokens, the
\* chunks returned are GreedyChunks.
C10_GreedyFirstFit == [][GreedyStep]_vars /\ []GreedyChunks

\* C10 witness: no paragraph exceeds the budget, and the split returned a
\* chunk of two paragraphs followed by another chunk.
C10_Witness ==
    /\ SplitDone
    /\ \A k \in 1..Len(paragraphs) : Count(paragraphs[k]) <= max_tokens
    /\ \E i \in 1..(Len(chunks) - 1) : Len(SplitParagraphs(chunks[i])) > 1

\* -------------------------------------------------- claims about the merger

\* The lengths L, 1 <= L <= min(overlap, len(res), len(chunk)), at which the
\* last L characters of res are the first L characters of chunk.
Overlaps(res, chunk, overlap) ==
    {L \in 1..Len(chunk) :
        /\ L <= overlap
        /\ L <= Len(res)
        /\ Suffix(res, L) = Take(chunk, L)}

\* The merge loop is about to process chunk midx.
AtMergeStep == pc = "merge_loop" /\ midx <= Len(mchunks)

\* A step on a chunk that overlaps the accumulator appends the chunk without
\* its first L characters, L the largest overlap.
LongestOverlapStep ==
    (AtMergeStep /\ Overlaps(result, mchunks[midx], overlap_chars) # {}) =>
        result' = result
            \o Drop(mchunks[midx], Max(Overlaps(result, mchunks[midx], overlap_chars)))

\* The merge of the documented example.
FoxExample ==
    (pc = "merged" /\ mchunks = FoxChunks /\ overlap_chars = 20) =>
        result = FoxMerged

\* C4: for every chunk after the first, the largest overlap L within
\* min(max_overlap_chars, len(accumulator), len(chunk)) is found and only the
\* chunk's characters after its first L are appended; "The quick brown fox"
\* and " brown fox jumps" merge to "The quick brown fox jumps".
C4_LongestOverlap == [][LongestOverlapStep]_vars /\ []FoxExample

\* C4 witness: a merge of two chunks that overlap at two lengths has
\* returned, with the longer overlap collapsed.
C4_Witness ==
    /\ pc = "merged"
    /\ Len(mchunks) = 2
    /\ Cardinality(Overlaps(mchunks[1], mchunks[2], overlap_chars)) >= 2
    /\ result = mchunks[1]
        \o Drop(mchunks[2], Max(Overlaps(mchunks[1], mchunks[2], overlap_chars)))

\* A step on a chunk that does not overlap the accumulator appends the chunk
\* unchanged, with nothing in between.
NoOverlapStep ==
    (AtMergeStep /\ Overlaps(result, mchunks[midx], overlap_chars) = {}) =>
        result' = result \o mchunks[midx]

\* No chunk of the list overlaps the concatenation of the chunks before it.
NoSharedBoundary(list, overlap) ==
    \A i \in 2..Len(list) : Overlaps(Concat(Take(list, i - 1)), list[i], overlap) = {}

\* The merge of chunks with no shared boundary is their concatenation; so
\* "abc" and "xyz" merge to "abcxyz".
PlainConcatenation ==
    /\ (pc = "merged" /\ NoSharedBoundary(mchunks, overlap_chars)) =>
        result = Concat(mchunks)
    /\ (pc = "merged" /\ mchunks = AbcXyzChunks) => result = AbcXyzMerged

\* C5: a chunk with no overlap at any length from 1 to
\* min(max_overlap_chars, len(accumulator), len(chunk)) is appended unchanged
\* with no separator, so chunks with no shared boundary merge to their plain
\* concatenation.
C5_NoOverlapConcatenates == [][NoOverlapStep]_vars /\ []PlainConcatenation

\* C5 witness: a merge of three non-empty chunks with no shared boundary has
\* returned their concatenation.
C5_Witness ==
    /\ pc = "merged"
    /\ Len(mchunks) = 3
    /\ \A i \in 1..3 : mchunks[i] # << >>
    /\ NoSharedBoundary(mchunks, overlap_chars)
    /\ result = Concat(mchunks)

IsPrefix(s, t) == Len(s) <= Len(t) /\ Take(t, Len(s)) = s

IsSuffix(s, t) == Len(s) <= Len(t) /\ Suffix(t, Len(s)) = s

\* s is a contiguous part of t.
IsSubstring(s, t) ==
    \E i \in 0..(Len(t) - Len(s)) : SubSeq(t, i + 1, i + Len(s)) = s

\* The accumulator after the first n chunks: it starts with the first chunk,
\* ends with chunk n and contains every chunk up to n.
Retains(n) ==
    n >= 1 =>
        /\ IsPrefix(mchunks[1], result)
        /\ IsSuffix(mchunks[n], result)
        /\ \A k \in 1..n : IsSubstring(mchunks[k], result)

ChunksRetained ==
    /\ pc = "merge_loop" => Retains(midx - 1)
    /\ pc = "merged" => Retains(Len(mchunks))

\* The accumulator is only ever extended.
OnlyExtended == pc = "merge_loop" => IsPrefix(result, result')

\* C9: after chunk i is processed the accumulator ends with chunk i, and it
\* is only ever extended, so the result starts with the first chunk, ends
\* with the last and contains each chunk as a contiguous part.
C9_ChunksRetained == [][OnlyExtended]_vars /\ []ChunksRetained

\* C9 witness: a merge of three non-empty chunks has returned a result
\* shorter than their concatenation: overlaps were collapsed.
C9_Witness ==
    /\ pc = "merged"
    /\ Len(mchunks) = 3
    /\ \A i \in 1..3 : mchunks[i] # << >>
    /\ Len(result) < Len(Concat(mchunks))

\* ------------------------------------------------ claims about the pipeline

\* The characters of s that are not whitespace, in order.
NonWhitespace(s) == SelectSeq(s, LAMBDA c : c \notin Whitespace)

\* s can be read in t, in order, skipping characters of t.
RECURSIVE IsSubsequence(_, _)
IsSubsequence(s, t) ==
    IF s = << >> THEN TRUE
    ELSE IF t = << >> THEN FALSE
    ELSE IF Head(s) = Head(t) THEN IsSubsequence(Tail(s), Tail(t))
    ELSE IsSubsequence(s, Tail(t))

\* The run is over and every chunk came back from the transform unchanged.
IdentityRun ==
    /\ pc = "done"
    /\ raw_text # << >>
    /\ \A i \in 1..Len(chunks) : cleaned_chunks[i] = chunks[i]

HasMarker(s) == \E k \in 1..Len(s) : s[k] = RefMarker

\* C3: with an identity transform and a text with no references marker, the
\* text returned holds all the non-whitespace characters of the input, in
\* order.
C3_IdentityRoundTrip ==
    (IdentityRun /\ ~HasMarker(raw_text)) =>
        IsSubsequence(NonWhitespace(raw_text), final_text)

\* Call i of the LLM raised.
Failed(i) == ~llm_log[i].outcome.ok

\* The run went through all its steps.
Completed == pc = "done" /\ raw_text # << >>

\* C6: after a run, every chunk was handed to the transform; a chunk whose
\* transform failed stands unchanged at its index and every other chunk
\* stands transformed; the text returned is the merge of that sequence; when
\* every transform failed it is the merge of the original chunks and it is
\* not empty.
C6_FailureFallback ==
    Completed =>
        /\ Len(llm_log) = Len(chunks)
        /\ Len(cleaned_chunks) = Len(chunks)
        /\ \A i \in 1..Len(chunks) :
            /\ llm_log[i].index = i
            /\ Failed(i) => cleaned_chunks[i] = chunks[i]
            /\ ~Failed(i) => cleaned_chunks[i] = Strip(llm_log[i].outcome.reply)
        /\ final_text = MergeAll(cleaned_chunks, DefaultOverlapChars)
        /\ (chunks # << >> /\ \A i \in 1..Len(chunks) : Failed(i)) =>
            /\ final_text = MergeAll(chunks, DefaultOverlapChars)
            /\ final_text # << >>

\* C6 witness: a run is over in which the transform failed on one chunk and
\* rewrote another.
C6_Witness ==
    /\ Completed
    /\ final_text # << >>
    /\ \E i, j \in 1..Len(chunks) :
        /\ Failed(i)
        /\ ~Failed(j)
        /\ cleaned_chunks[j] # chunks[j]

\* The text has no character that is not whitespace.
NoContent(s) == \A k \in 1..Len(s) : s[k] \in Whitespace

\* C7: when the input text is empty, or nothing but whitespace is left of it
\* once the references are cut, the LLM is never called and the run returns
\* the empty string.
C7_EmptyInput ==
    NoContent(RemoveReferences(raw_text)) =>
        /\ llm_log = << >>
        /\ pc = "done" => final_text = << >>

\* C7 witness: a run on a text of whitespace and blank lines is over.
C7_Witness ==
    /\ pc = "done"
    /\ NoContent(raw_text)
    /\ Len(raw_text) >= 3
    /\ Len(paragraphs) >= 2

\* The merge has been called, is running or has returned.
Merging == pc \in {"merge", "merge_loop", "merged"} \/ (pc = "done" /\ raw_text # << >>)

\* The transform has been invoked once on each of the first chunks, in index
\* order, and result i stands at index i.
TransformedInOrder ==
    /\ Len(llm_log) = Len(cleaned_chunks)
    /\ Len(llm_log) <= Len(chunks)
    /\ \A i \in 1..Len(llm_log) :
        /\ llm_log[i].index = i
        /\ cleaned_chunks[i] =
            IF llm_log[i].outcome.ok THEN Strip(llm_log[i].outcome.reply)
            ELSE chunks[i]

\* The merge works on the results of all the chunks.
MergeOfAll ==
    Merging =>
        /\ Len(llm_log) = Len(chunks)
        /\ mchunks = cleaned_chunks

\* A step invokes the transform at most once, on the chunk after the last one
\* transformed, and only before the merge; the chunks handed to the merger and
\* its accumulator change only when every chunk has been transformed.
TransformThenMerge ==
    /\ llm_log' # llm_log =>
        /\ pc = "clean_loop"
        /\ Len(llm_log') = Len(llm_log) + 1
        /\ SubSeq(llm_log', 1, Len(llm_log)) = llm_log
        /\ llm_log'[Len(llm_log')].index = Len(llm_log) + 1
        /\ SubSeq(cleaned_chunks', 1, Len(cleaned_chunks)) = cleaned_chunks
        /\ UNCHANGED <<chunks, mchunks, result>>
    /\ (mchunks' # mchunks \/ result' # result) =>
        /\ Len(llm_log) = Len(chunks)
        /\ UNCHANGED <<chunks, cleaned_chunks, llm_log>>

\* C11: in one run the transform is invoked exactly once per chunk, in
\* increasing index order, result i is stored at index i, and the merge
\* starts only after the transform of the last chunk has returned; no partial
\* result is merged earlier.
C11_TransformThenMerge ==
    [][TransformThenMerge]_vars /\ [](TransformedInOrder /\ MergeOfAll)

\* C11 witness: a run on three chunks or more is over, in which the
\* transform rewrote one chunk and failed on a later one.
C11_Witness ==
    /\ pc = "done"
    /\ Len(chunks) >= 3
    /\ Len(llm_log) = Len(chunks)
    /\ \E i, j \in 1..Len(chunks) :
        /\ i < j
        /\ llm_log[i].outcome.ok
        /\ cleaned_chunks[i] # chunks[i]
        /\ ~llm_log[j].outcome.ok

\* ----------------------------------------------- claims about the paragraphs

\* The text holds two consecutive line breaks.
HasBlankLine(s) == \E k \in 1..(Len(s) - 1) : s[k] = "\n" /\ s[k + 1] = "\n"

\* The pieces of a text between its runs of two or more line breaks, each run
\* being one boundary.
RECURSIVE RunPieces(_)
RunPieces(s) ==
    LET B == {k \in 1..(Len(s) - 1) : s[k] = "\n" /\ s[k + 1] = "\n"}
    IN IF B = {} THEN <<s>>
       ELSE <<Take(s, Min(B) - 1)>>
                \o RunPieces(Drop(s, RunEnd(s, Min(B), {"\n"}) - 1))

\* The paragraphs the packer is handed: those with a character that is not
\* whitespace.
Handed == SelectSeq(paragraphs, LAMBDA x : ~NoContent(x))

\* The paragraph at hand, if blank, leaves buffer and chunks alone; if not,
\* it is cut into sentences, or it goes to the buffer, the buffer being emitted
\* first when the two do not fit together.
BlankDiscarded ==
    (pc = "split_loop" /\ pidx <= Len(paragraphs)) =>
        IF NoContent(paragraphs[pidx])
        THEN pc' = "split_loop" /\ UNCHANGED <<current_chunk, chunks>>
        ELSE \/ pc' = "sentence_loop"
             \/ current_chunk' # current_chunk
             \/ chunks' = Append(chunks, current_chunk)

\* C12 as stated: the paragraphs handed to the packer are the non-blank
\* pieces between the runs of two or more line breaks, so that none keeps a
\* line break of a boundary, and a text with no blank line is one paragraph.
C12_RunsAreBoundaries ==
    (Splitting \/ SplitDone) =>
        /\ Handed = SelectSeq(RunPieces(text), LAMBDA x : ~NoContent(x))
        /\ (~HasBlankLine(text) /\ ~NoContent(text)) => Handed = <<text>>

\* The pieces are cut at pairs of line breaks taken left to right: joined by
\* pairs of line breaks they give the text back, none holds a pair, and none
\* but the last ends with a line break.
CutAtPairs ==
    (Splitting \/ SplitDone) =>
        /\ JoinBlankLine(paragraphs) = text
        /\ \A k \in 1..Len(paragraphs) : ~HasBlankLine(paragraphs[k])
        /\ \A k \in 1..(Len(paragraphs) - 1) :
            paragraphs[k] = << >> \/ paragraphs[k][Len(paragraphs[k])] # "\n"
        /\ (~HasBlankLine(text) /\ ~NoContent(text)) => Handed = <<text>>

\* C12 amended: the text is cut at each pair of consecutive line breaks, the
\* pairs taken left to right without overlap, and the pieces that are empty
\* after trimming are discarded; the third line break of a run stays at the
\* start of the next paragraph; a non-blank text with no blank line is one
\* paragraph.
C12_PairsAreBoundaries == [][BlankDiscarded]_vars /\ []CutAtPairs

\* C12 witness: the split of a text with a run of three line breaks is over;
\* the paragraph after the run starts with a line break and went to a chunk,
\* and a blank piece was discarded.
C12_Witness ==
    /\ SplitDone
    /\ \E k \in 2..Len(paragraphs) :
        /\ ~NoContent(paragraphs[k])
        /\ paragraphs[k][1] = "\n"
        /\ \E j \in 1..Len(chunks) : IsPrefix(paragraphs[k], chunks[j])
    /\ \E k \in 1..Len(paragraphs) : NoContent(paragraphs[k])

\* ------------------------------------------------ claims about the sentences

\* The sentence-terminal marks: '.', '!', '?' and their full-width
\* equivalents.
SentenceMarks ==
    {".", "!", "?", IdeographicFullStop, FullwidthExclamation, FullwidthQuestion}

\* C13: a paragraph over the budget is cut at every sentence mark, ASCII or
\* full-width: the sentences concatenated in order are the paragraph, every
\* sentence but the last ends with a mark, and no sentence holds a mark
\* before its last character.
C13_SplitAtEveryMark ==
    pc = "sentence_loop" =>
        /\ Concat(sentences) = paragraphs[pidx]
        /\ \A k \in 1..(Len(sentences) - 1) :
            sentences[k][Len(sentences[k])] \in SentenceMarks
        /\ \A k \in 1..Len(sentences) :
            \A j \in 1..(Len(sentences[k]) - 1) :
                sentences[k][j] \notin SentenceMarks

\* ------------------------------------------- claims about the joins in a chunk

\* The segments the packer works on, in order, from paragraph k on: each
\* non-blank paragraph within the budget, and each non-blank sentence of each
\* paragraph over it, with the paragraph it comes from.
RECURSIVE SegmentsFrom(_)
SegmentsFrom(k) ==
    IF k > Len(paragraphs) THEN << >>
    ELSE LET paragraph == paragraphs[k]
             kept == SelectSeq(SentencesOf(paragraph), LAMBDA x : ~NoContent(x))
         IN (IF NoContent(paragraph) THEN << >>
             ELSE IF Count(paragraph) > max_tokens
                  THEN [i \in 1..Len(kept) |->
                            [para |-> k, cut |-> TRUE, body |-> kept[i]]]
                  ELSE <<[para |-> k, cut |-> FALSE, body |-> paragraph]>>)
            \o SegmentsFrom(k + 1)

\* The segments joined as the claim says: nothing between two segments of the
\* same paragraph, one double newline between two of different paragraphs.
RECURSIVE Glue(_)
Glue(group) ==
    IF Len(group) = 1 THEN group[1].body
    ELSE group[1].body
            \o (IF group[1].para = group[2].para THEN << >> ELSE <<"\n", "\n">>)
            \o Glue(Tail(group))

\* No sentence of a cut paragraph stands behind a segment of an earlier
\* paragraph.
NothingBeforeSentences(group) ==
    \A i \in 2..Len(group) : group[i].cut => group[i - 1].para = group[i].para

\* The list of chunks is the list of segments cut into groups of consecutive
\* segments, each group glued, none with a sentence behind an earlier
\* paragraph.
RECURSIVE GroupsGlued(_, _)
GroupsGlued(list, segs) ==
    IF list = << >> THEN segs = << >>
    ELSE \E n \in 1..Len(segs) :
            /\ Glue(Take(segs, n)) = Head(list)
            /\ NothingBeforeSentences(Take(segs, n))
            /\ GroupsGlued(Tail(list), Drop(segs, n))

\* C14: inside every chunk, two segments of different paragraphs are joined
\* by exactly one double newline and two sentences of the same cut paragraph
\* by nothing; the buffer is emitted before a paragraph over the budget is
\* cut, so no chunk joins earlier paragraphs to that paragraph's sentences.
C14_JoinsInChunks == SplitDone => GroupsGlued(chunks, SegmentsFrom(1))

\* C14 witness: the split is over; a paragraph was emitted before the
\* paragraph over the budget that followed it was cut, and the last sentence
\* of that paragraph shares a chunk with the paragraph after it.
C14_Witness ==
    /\ SplitDone
    /\ \E k \in 2..(Len(paragraphs) - 1) :
        /\ ~NoContent(paragraphs[k - 1])
        /\ Count(paragraphs[k]) > max_tokens
        /\ Len(SentencesOf(paragraphs[k])) >= 2
        /\ \E j \in 2..Len(chunks), s \in SentenceSet(paragraphs[k]) :
            /\ ~NoContent(s)
            /\ chunks[j] = s \o <<"\n", "\n">> \o paragraphs[k + 1]
            /\ IsSuffix(paragraphs[k - 1], chunks[1])

\* --------------------------------------------- claims about process_folder

\* The entries of the listing whose extension is .pdf in any case, in order.
PdfEntries == SelectSeq(listing, LAMBDA f : f.ext \in {".pdf", ".PDF"})

\* The files handled so far whose run returned a non-empty text.
Succeeded ==
    {i \in 1..Len(file_log) :
        ~file_log[i].outcome.raised /\ file_log[i].outcome.text # << >>}

\* The files handled are the first PDF files of the folder, each once and in
\* order; the two counters add up to their number, successful_count being the
\* number of runs that returned a non-empty text; when the loop is over every
\* PDF file has been handled.
FolderCounts ==
    pc \in {"folder_loop", "folder_done"} =>
        /\ pdf_files = PdfEntries
        /\ Len(file_log) <= Len(pdf_files)
        /\ \A i \in 1..Len(file_log) : file_log[i].file = pdf_files[i]
        /\ \A i, j \in 1..Len(file_log) :
            i # j => file_log[i].file # file_log[j].file
        /\ successful_count + failed_count = Len(file_log)
        /\ successful_count = Cardinality(Succeeded)
        /\ pc = "folder_done" =>
            /\ Len(file_log) = Len(PdfEntries)
            /\ successful_count + failed_count = Len(PdfEntries)

\* Whatever the run on a file did, the loop goes on with the file after it.
NeverStopped ==
    (pc = "folder_loop" /\ Len(file_log) < Len(pdf_files)) =>
        /\ pc' = "folder_loop"
        /\ Len(file_log') = Len(file_log) + 1
        /\ file_log'[Len(file_log')].file = pdf_files[Len(file_log) + 1]

\* C15: process_folder handles every PDF file of the folder exactly once and
\* in order, a failure or an exception on one file never stops the others;
\* at every step successful_count + failed_count is the number of files
\* handled, at the end the number of PDF files, and a file is counted
\* successful exactly when its run returned a non-empty text.
C15_FolderCounts == [][NeverStopped]_vars /\ []FolderCounts

\* C15 witness: the loop over three PDF files is over; the run on the first
\* raised, the run on the second returned nothing and the third succeeded.
C15_Witness ==
    /\ pc = "folder_done"
    /\ Len(pdf_files) = 3
    /\ file_log[1].outcome.raised
    /\ ~file_log[2].outcome.raised /\ file_log[2].outcome.text = << >>
    /\ file_log[3].outcome.text # << >>
    /\ successful_count = 1
    /\ failed_count = 2

====
